---- MODULE Spec2Model ----
(***************************************************************************)
(* A model of the rpc-ring repository:                                     *)
(*   - CompactString<N>        (src/src/compact_str.rs)                    *)
(*   - the def_schema! macro   (src/rpc-ring-macro/src/lib.rs)             *)
(*   - SpscRing                (src/src/lib.rs); the repository declares   *)
(*     the ring's layout and its default() only, so the submit/drain      *)
(*     protocol is modelled from section 4.3 of the specification.         *)
(***************************************************************************)
EXTENDS Integers, Sequences, FiniteSets, TLC

VARIABLES
    \* ---- CompactString ----
    N,          \* the const generic capacity of CompactString<N>
    endian,     \* cfg(target_endian) of the build: "little" or "big"
    vals,       \* the CompactString values alive, by variable slot
    heap,       \* the allocator: address -> boxed slice, or NoBuf
    badfree,    \* a release of something that is no live allocation happened
    lastDrop,   \* the last destruction: did it see the heap tag, what it released
    \* ---- def_schema! ----
    schema,     \* the parsed Schema handed to the macro
    output,     \* what the macro expanded to
    opread,     \* the last op() read from a request value
    \* ---- SpscRing ----
    sq, cq,     \* the entry arrays
    sq_tail, cq_head,   \* client-written cursors
    sq_head, cq_tail,   \* server-written cursors
    client,     \* the client thread: position and locals
    server,     \* the server thread: position and locals
    hist        \* history of the entries that crossed the ring

strVars  == <<N, endian, vals, heap, badfree, lastDrop>>
schVars  == <<schema, output, opread>>
ringVars == <<sq, cq, sq_tail, cq_head, sq_head, cq_tail, client, server, hist>>
vars     == <<strVars, schVars, ringVars>>

Min(a, b) == IF a <= b THEN a ELSE b

Last(s) == s[Len(s)]

RECURSIVE Reverse(_)
Reverse(s) == IF s = <<>> THEN <<>> ELSE Append(Reverse(Tail(s)), Head(s))

(***************************************************************************)
(*                         CompactString<N>                                *)
(***************************************************************************)

\* debug_assert!((16..=61).contains(&N))
MinN == 16
MaxN == 61

LAST_BYTE_FIRST_INVALID_UTF8 == 192
LAST_BYTE_HEAP == 253
LAST_BYTE_STATIC == 254

\* Longest text the model constructs (beyond MaxN, so the heap path is taken
\* for every N).
MaxLen == 63
\* Variable slots of the lifecycle specification.
MaxVals == 2

\* A usize is modelled as its 8 bytes, least significant first, because the
\* tag byte overlaps the second usize when N = 16.
RECURSIVE WordOf(_, _)
WordOf(x, n) == IF n = 0 THEN <<>> ELSE <<x % 256>> \o WordOf(x \div 256, n - 1)

Usize(x) == WordOf(x, 8)

\* A value no address or length of the model reaches: what a word decodes to
\* when it does not fit the model's integers.
Huge == 127 * 16777216 + 16777215

WordToNat(w) ==
    IF w[5] = 0 /\ w[6] = 0 /\ w[7] = 0 /\ w[8] = 0 /\ w[4] < 128
    THEN w[1] + 256 * w[2] + 65536 * w[3] + 16777216 * w[4]
    ELSE Huge

\* usize << 8, usize >> 8 and usize & 0x00FF_FFFF_FFFF_FFFF on words.
Shl8(w)   == <<0>> \o SubSeq(w, 1, 7)
Shr8(w)   == SubSeq(w, 2, 8) \o <<0>>
Mask56(w) == SubSeq(w, 1, 7) \o <<0>>

\* The memory image of a native usize, and back.
ToMem(w, e)   == IF e = "little" THEN w ELSE Reverse(w)
FromMem(m, e) == IF e = "little" THEN m ELSE Reverse(m)

Zeros(n) == [i \in 1..n |-> 0]

\* Overwrite bytes[off+1 .. off+Len(data)] (a store through a raw pointer).
Poke(bytes, off, data) ==
    [i \in 1..Len(bytes) |->
        IF i > off /\ i <= off + Len(data) THEN data[i - off] ELSE bytes[i]]

first_usize(bytes, e)  == FromMem(SubSeq(bytes, 1, 8), e)
second_usize(bytes, e) == FromMem(SubSeq(bytes, 9, 16), e)
last_byte(bytes)       == Last(bytes)

set_first_usize(bytes, w, e)  == Poke(bytes, 0, ToMem(w, e))
set_second_usize(bytes, w, e) == Poke(bytes, 8, ToMem(w, e))
set_last_byte(bytes, b)       == Poke(bytes, Len(bytes) - 1, <<b>>)

EMPTY(n) == set_last_byte(Zeros(n), LAST_BYTE_FIRST_INVALID_UTF8)

\* `len as u8 | 192` on a byte: the two top bits set, the six low bits kept.
Or192(len) == 192 + ((len % 256) % 64)

\* The stored length word of the heap and static representations.
StoreLen(len, e) == IF e = "little" THEN Usize(len) ELSE Shl8(Usize(len))
LoadLen(w, e)    == IF e = "little" THEN Mask56(w) ELSE Shr8(w)

\* new() as it would be with the tag stored after the copy instead of before.
NewBytesTagAfterCopy(text, n, ptr, e) ==
    LET len == Len(text) IN
    IF len = 0 THEN EMPTY(n)
    ELSE IF len <= n
         THEN set_last_byte(Poke(Zeros(n), 0, text), Or192(len))
         ELSE set_last_byte(
                  set_second_usize(set_first_usize(Zeros(n), Usize(ptr), e),
                                   StoreLen(len, e), e),
                  LAST_BYTE_HEAP)

\* CompactString::new: the bytes of the new value; `ptr` is the address the
\* allocator returned for the boxed copy (used when len > N only).
NewBytes(text, n, ptr, e) ==
    LET len == Len(text) IN
    IF len = 0 THEN EMPTY(n)
    ELSE IF len <= n
         THEN Poke(set_last_byte(Zeros(n), Or192(len)), 0, text)
         ELSE set_last_byte(
                  set_second_usize(set_first_usize(Zeros(n), Usize(ptr), e),
                                   StoreLen(len, e), e),
                  LAST_BYTE_HEAP)

\* Whether new() allocates for this text.
NewAllocates(text, n) == Len(text) > n

\* new_static() as it would be with the heap tag in place of the static one.
NewStaticBytesAsHeap(text, n, ptr, e) ==
    LET len == Len(text) IN
    IF len = 0 THEN EMPTY(n)
    ELSE set_last_byte(
             set_second_usize(set_first_usize(Zeros(n), Usize(ptr), e),
                              StoreLen(len, e), e),
             LAST_BYTE_HEAP)

\* CompactString::new_static: the bytes of the new value; `ptr` is
\* text.as_ptr().
NewStaticBytes(text, n, ptr, e) ==
    LET len == Len(text) IN
    IF len = 0 THEN EMPTY(n)
    ELSE set_last_byte(
             set_second_usize(set_first_usize(Zeros(n), Usize(ptr), e),
                              StoreLen(len, e), e),
             LAST_BYTE_STATIC)

\* as_slice() as it would be without the mask / shift of the stored length.
AsSliceNoMask(bytes, self, e) ==
    IF last_byte(bytes) >= LAST_BYTE_HEAP
    THEN [ptr |-> WordToNat(first_usize(bytes, e)),
          len |-> WordToNat(second_usize(bytes, e))]
    ELSE [ptr |-> self,
          len |-> Min((last_byte(bytes) + 256 - LAST_BYTE_FIRST_INVALID_UTF8) % 256,
                      Len(bytes))]

\* CompactString::as_slice: the (ptr, len) handed to slice::from_raw_parts;
\* `self` is the address of the value.
AsSlice(bytes, self, e) ==
    IF last_byte(bytes) >= LAST_BYTE_HEAP
    THEN [ptr |-> WordToNat(first_usize(bytes, e)),
          len |-> WordToNat(LoadLen(second_usize(bytes, e), e))]
    ELSE [ptr |-> self,
          len |-> Min((last_byte(bytes) + 256 - LAST_BYTE_FIRST_INVALID_UTF8) % 256,
                      Len(bytes))]

\* impl Drop: the (ptr, len) given to Box::from_raw, or NoFree.
NoFree == [ptr |-> 0, len |-> 0]

\* drop() as it would be with the test of as_slice (tag >= 253).
DropFreesStaticToo(bytes, e) ==
    IF last_byte(bytes) >= LAST_BYTE_HEAP
    THEN [ptr |-> WordToNat(first_usize(bytes, e)),
          len |-> WordToNat(LoadLen(second_usize(bytes, e), e))]
    ELSE NoFree

DropFrees(bytes, e) ==
    IF last_byte(bytes) = LAST_BYTE_HEAP
    THEN [ptr |-> WordToNat(first_usize(bytes, e)),
          len |-> WordToNat(LoadLen(second_usize(bytes, e), e))]
    ELSE NoFree

\* ---- memory: the stack slots, the allocator's buffers, the statics ----

Slots     == 1..MaxVals
HeapAddrs == {2097152 + 4104 * k : k \in 1..MaxVals}
NoBuf     == [live |-> FALSE, buf |-> <<>>]
NoVal     == [by |-> "none"]

SlotAddr(s) == 8192 * s

\* Valid UTF-8 texts: a run of 'a' closed by one character of 1 to 4 bytes
\* ('a', U+07FF, the euro sign, U+1F600).
LastChars == { <<97>>, <<223, 191>>, <<226, 130, 172>>, <<240, 159, 152, 128>> }

Text(len, ch) == [i \in 1..(len - Len(ch)) |-> 97] \o ch

Texts(lens) == {<<>>} \cup
    { Text(l, c) : <<l, c>> \in { p \in lens \X LastChars : Len(p[2]) <= p[1] } }

AllTexts == Texts(1..MaxLen)

\* Where a whole-program-lifetime text lives (text.as_ptr()).
StaticAddrOf(text) ==
    1048576 + 256 * Len(text) + (IF text = <<>> THEN 0 ELSE Last(text))

Invalid == [ok |-> FALSE, bytes |-> <<>>]
Valid(b) == [ok |-> TRUE, bytes |-> b]

\* slice::from_raw_parts(ptr, len) read through: the bytes of the view, or
\* Invalid when (ptr, len) is no readable range of the model's memory.
ReadMem(ptr, len) ==
    IF ptr \in HeapAddrs
    THEN IF heap[ptr].live /\ len <= Len(heap[ptr].buf)
         THEN Valid(SubSeq(heap[ptr].buf, 1, len)) ELSE Invalid
    ELSE IF \E s \in Slots : SlotAddr(s) = ptr
    THEN LET s == CHOOSE t \in Slots : SlotAddr(t) = ptr IN
         IF vals[s].by # "none" /\ len <= Len(vals[s].bytes)
         THEN Valid(SubSeq(vals[s].bytes, 1, len)) ELSE Invalid
    ELSE IF \E t \in AllTexts : StaticAddrOf(t) = ptr /\ len <= Len(t)
    THEN LET t == CHOOSE u \in AllTexts : StaticAddrOf(u) = ptr /\ len <= Len(u) IN
         Valid(SubSeq(t, 1, len))
    ELSE Invalid

\* as_slice() of the value in slot s, and the bytes as_str() shows.
SliceOf(s) == AsSlice(vals[s].bytes, SlotAddr(s), endian)
ViewOf(s)  == ReadMem(SliceOf(s).ptr, SliceOf(s).len)
TagOf(s)   == last_byte(vals[s].bytes)

Live == {s \in Slots : vals[s].by # "none"}

StrInit ==
    /\ N \in MinN..MaxN
    /\ endian \in {"little", "big"}
    /\ vals = [s \in Slots |-> NoVal]
    /\ heap = [a \in HeapAddrs |-> NoBuf]
    /\ badfree = FALSE
    /\ lastDrop = [heapTag |-> FALSE, released |-> 0]

\* let v = CompactString::<N>::new(text);
StrNew(s, text) ==
    /\ ~badfree
    /\ vals[s].by = "none"
    /\ IF NewAllocates(text, N)
       THEN \E a \in {b \in HeapAddrs : ~heap[b].live} :
               /\ heap' = [heap EXCEPT ![a] = [live |-> TRUE, buf |-> text]]
               /\ vals' = [vals EXCEPT ![s] =
                     [by |-> "new", src |-> text, src_addr |-> 0, allocd |-> TRUE,
                      bytes |-> NewBytes(text, N, a, endian)]]
       ELSE /\ heap' = heap
            /\ vals' = [vals EXCEPT ![s] =
                  [by |-> "new", src |-> text, src_addr |-> 0, allocd |-> FALSE,
                   bytes |-> NewBytes(text, N, 0, endian)]]
    /\ UNCHANGED <<N, endian, badfree, lastDrop, schVars, ringVars>>

\* let v = CompactString::<N>::new_static(TEXT);
StrNewStatic(s, text) ==
    /\ ~badfree
    /\ vals[s].by = "none"
    /\ heap' = heap
    /\ vals' = [vals EXCEPT ![s] =
          [by |-> "static", src |-> text, src_addr |-> StaticAddrOf(text),
           allocd |-> heap' # heap,
           bytes |-> NewStaticBytes(text, N, StaticAddrOf(text), endian)]]
    /\ UNCHANGED <<N, endian, badfree, lastDrop, schVars, ringVars>>

\* The value in slot s goes out of scope: Drop::drop runs.
StrDrop(s) ==
    /\ ~badfree
    /\ vals[s].by # "none"
    /\ LET f == DropFrees(vals[s].bytes, endian) IN
       IF f = NoFree
       THEN /\ heap' = heap
            /\ badfree' = badfree
       ELSE IF f.ptr \in HeapAddrs /\ heap[f.ptr].live /\ Len(heap[f.ptr].buf) = f.len
       THEN /\ heap' = [heap EXCEPT ![f.ptr] = NoBuf]
            /\ badfree' = badfree
       ELSE /\ heap' = heap
            /\ badfree' = TRUE
    /\ lastDrop' = [heapTag  |-> TagOf(s) = LAST_BYTE_HEAP,
                    released |-> IF heap' # heap \/ badfree' THEN 1 ELSE 0]
    /\ vals' = [vals EXCEPT ![s] = NoVal]
    /\ UNCHANGED <<N, endian, schVars, ringVars>>

(***************************************************************************)
(*                            def_schema!                                  *)
(***************************************************************************)

\* Entries of the largest schema the model expands.
MaxSchemaEntries == 2

\* syn::Type as the macro looks at it: a Type::Path (with its leading `::`,
\* its segments and whether a segment carries generic arguments) or another
\* kind of type.
SimpleTy(name) == [kind |-> "path", lead |-> FALSE, segs |-> <<name>>, args |-> FALSE]

\* LinkRead, FileStat; std::Error; Result<..>; &LinkRead
ReqTypes ==
    { SimpleTy("LinkRead"), SimpleTy("FileStat"),
      [kind |-> "path", lead |-> FALSE, segs |-> <<"std", "Error">>, args |-> FALSE],
      [kind |-> "path", lead |-> FALSE, segs |-> <<"Result">>, args |-> TRUE],
      [kind |-> "reference", lead |-> FALSE, segs |-> <<"LinkRead">>, args |-> FALSE] }

\* i32; Result<CompactString48, i32>
RespTypes ==
    { SimpleTy("i32"),
      [kind |-> "path", lead |-> FALSE, segs |-> <<"Result">>, args |-> TRUE] }

\* Option<syn::LitInt>
None    == [some |-> FALSE, lit |-> 0]
Some(d) == [some |-> TRUE, lit |-> d]
Codes   == {None, Some(4096), Some(8192)}

SchemaEntries == [discriminant : Codes, req : ReqTypes, resp : RespTypes]

RECURSIVE SeqsUpTo(_, _)
SeqsUpTo(S, n) ==
    IF n = 0 THEN {<<>>}
    ELSE LET shorter == SeqsUpTo(S, n - 1) IN
         shorter \cup {Append(q, x) : <<q, x>> \in {p \in shorter \X S : Len(p[1]) = n - 1}}

Schemas == SeqsUpTo(SchemaEntries, MaxSchemaEntries) \ {<<>>}

\* syn::Path::get_ident: the identifier of a path that is one segment
\* without arguments and without a leading `::`.
get_ident(ty) ==
    IF ~ty.lead /\ Len(ty.segs) = 1 /\ ~ty.args THEN Some(ty.segs[1]) ELSE [some |-> FALSE, lit |-> ""]

\* The closure as it would be without the get_ident test.
FieldNameAnyPath(entry) ==
    IF entry.req.kind # "path"
    THEN [ok |-> FALSE, v |-> "Request type must be a path-like type"]
    ELSE [ok |-> TRUE, v |-> <<"snake", entry.req.segs[Len(entry.req.segs)]>>]

\* The closure of response_field_names_result on one entry: the Ok / Err it
\* returns. Only entry.req is looked at.
FieldName(entry) ==
    IF entry.req.kind # "path"
    THEN [ok |-> FALSE, v |-> "Request type must be a path-like type"]
    ELSE IF ~get_ident(entry.req).some
    THEN [ok |-> FALSE, v |-> "Request type must be a single identifier"]
    ELSE [ok |-> TRUE, v |-> <<"snake", get_ident(entry.req).lit>>]

\* The tokens as they would be with the codes left out.
DiscTokensDropped(entries) == [i \in 1..Len(entries) |-> None]

\* request_discriminant_tokens: `= #d` for an entry with a code, nothing for
\* one without.
DiscTokens(entries) == [i \in 1..Len(entries) |-> entries[i].discriminant]

NotExpanded == [state |-> "none", ok |-> FALSE, err |-> "", variants |-> <<>>, fields |-> <<>>]

\* def_schema: the compile error of the first entry that fails, or the
\* generated items (the request enum's variants with their discriminant
\* tokens, the response union's fields).
def_schema(entries) ==
    LET names == [i \in 1..Len(entries) |-> FieldName(entries[i])]
        bad   == {i \in 1..Len(entries) : ~names[i].ok}
    IN  IF bad # {}
        THEN [state |-> "expanded", ok |-> FALSE,
              err |-> names[CHOOSE i \in bad : \A j \in bad : i <= j].v,
              variants |-> <<>>, fields |-> <<>>]
        ELSE [state |-> "expanded", ok |-> TRUE, err |-> "",
              variants |-> [i \in 1..Len(entries) |->
                              [name |-> entries[i].req, disc |-> DiscTokens(entries)[i]]],
              fields   |-> [i \in 1..Len(entries) |->
                              [name |-> names[i].v, ty |-> entries[i].resp]]]

\* The discriminants of the generated `#[repr(C, u32)] enum`: the value
\* written after `=`, else one more than the variant before, else 0.
RECURSIVE Discriminant(_, _)
Discriminant(variants, i) ==
    IF variants[i].disc.some THEN variants[i].disc.lit
    ELSE IF i = 1 THEN 0
    ELSE Discriminant(variants, i - 1) + 1

\* The generated enum and union are items rustc accepts: no two variants
\* (fields) of one name, no two variants of one discriminant.
ItemsWellFormed(out) ==
    \A i, j \in 1..Len(out.variants) :
        i # j => /\ out.variants[i].name # out.variants[j].name
                 /\ Discriminant(out.variants, i) # Discriminant(out.variants, j)

\* A request value of variant i in memory: repr(C, u32) puts the tag, a
\* native u32, at offset 0, the payload after it.
RequestValue(out, i, e) ==
    [tag |-> ToMem(WordOf(Discriminant(out.variants, i), 4), e), payload |-> i]

\* Request::op: *(self as *const Self as *const u32)
op(value, e) ==
    LET w == FromMem(value.tag, e) IN
    w[1] + 256 * w[2] + 65536 * w[3] + 16777216 * w[4]

NoRead == [variant |-> 0, code |-> 0]

\* No schema expanded.
SchIdle == schema = <<>> /\ output = NotExpanded /\ opread = NoRead

SchInit ==
    /\ schema \in Schemas
    /\ output = NotExpanded
    /\ opread = NoRead

\* The compiler expands the def_schema! invocation.
Expand ==
    /\ output.state = "none"
    /\ output' = def_schema(schema)
    /\ UNCHANGED <<schema, opread, strVars, ringVars>>

\* The built program calls op() on a request of variant i.
ReadOp(i) ==
    /\ output.state = "expanded" /\ output.ok /\ ItemsWellFormed(output)
    /\ i \in 1..Len(output.variants)
    /\ opread' = [variant |-> i, code |-> op(RequestValue(output, i, endian), endian)]
    /\ UNCHANGED <<schema, output, strVars, ringVars>>

StrIdle ==
    /\ N = MinN /\ endian \in {"little", "big"}
    /\ vals = [s \in Slots |-> NoVal]
    /\ heap = [a \in HeapAddrs |-> NoBuf]
    /\ badfree = FALSE
    /\ lastDrop = [heapTag |-> FALSE, released |-> 0]

(***************************************************************************)
(*                              SpscRing                                   *)
(* The struct and its default() are the repository's; the protocol the    *)
(* two threads run on it is section 4.3 of the specification.              *)
(***************************************************************************)

\* const N_SQE, const N_CQE: the capacities of the two queues.
N_SQE == 3
N_CQE == 2
\* Width of a cursor in bits: AtomicU32 scaled down.
CursorBits == 4
\* Requests the client submits, with correlation ids 1..MaxRequests.
MaxRequests == 5

CursorMod == 2 ^ CursorBits

\* Requests the client submits in the run that takes the cursors past the
\* wrap: one more than a cursor has values.
WrapRequests == CursorMod + 1

\* Cursor arithmetic of a fixed-width unsigned counter.
Inc(c)      == (c + 1) % CursorMod
Depth(t, h) == (t - h + CursorMod) % CursorMod

\* An entry (Sqe / Cqe): the 64-bit correlation id and a check field the
\* producer writes last. `w` records how far the last write of the slot got.
Uninit == [id |-> 0, chk |-> 0, w |-> "uninit"]
Ids    == 1..MaxRequests

\* What a read of a field of a slot yields: any value at all for memory
\* that was never written (MaybeUninit::uninit().assume_init()).
FieldValues(slot, f) == IF slot.w = "uninit" THEN 0..MaxRequests ELSE {slot[f]}

\* default() as it would be with one cursor starting at 1.
RingInitSqTailAhead ==
    /\ sq = [i \in 0..(N_SQE - 1) |-> Uninit]
    /\ cq = [i \in 0..(N_CQE - 1) |-> Uninit]
    /\ sq_tail = 1 /\ cq_head = 0 /\ sq_head = 0 /\ cq_tail = 0

RingInitSqHeadAhead ==
    /\ sq = [i \in 0..(N_SQE - 1) |-> Uninit]
    /\ cq = [i \in 0..(N_CQE - 1) |-> Uninit]
    /\ sq_tail = 0 /\ cq_head = 0 /\ sq_head = 1 /\ cq_tail = 0

RingInitCqTailAhead ==
    /\ sq = [i \in 0..(N_SQE - 1) |-> Uninit]
    /\ cq = [i \in 0..(N_CQE - 1) |-> Uninit]
    /\ sq_tail = 0 /\ cq_head = 0 /\ sq_head = 0 /\ cq_tail = 1

\* SpscRing::default: the arrays uninitialized, the four cursors 0.
RingInit ==
    /\ sq = [i \in 0..(N_SQE - 1) |-> Uninit]
    /\ cq = [i \in 0..(N_CQE - 1) |-> Uninit]
    /\ sq_tail = 0 /\ cq_head = 0 /\ sq_head = 0 /\ cq_tail = 0

\* The two threads before their first step; `limit` is how many requests
\* the client is going to submit.
ThreadsStart(limit) ==
    /\ client = [pc |-> "idle", next |-> 1, limit |-> limit,
                 rd |-> [id |-> 0, chk |-> 0],
                 res |-> "none", refused |-> FALSE]
    /\ server = [pc |-> "idle", cur |-> 0, rd |-> [id |-> 0, chk |-> 0]]
    /\ hist = [submitted |-> <<>>, drained |-> <<>>, completed |-> <<>>,
               observed |-> <<>>, outstanding |-> {}, bad_read |-> FALSE,
               unmatched |-> FALSE]

ThreadsInit == ThreadsStart(MaxRequests)

\* The full test as it would be with > for ==.
IsFullOffByOne(t, h, cap) == Depth(t, h) > cap

\* Step 1 of the protocol: the queue is full when tail - head == capacity.
IsFull(t, h, cap) == Depth(t, h) = cap

\* Step 3: entries are available when head and tail differ.
IsEmpty(t, h) == t = h

\* ---- the client: producer of the submission queue ----

\* submit(): load sq_head (acquire), compare with the own sq_tail.
ClientSubmitBegin ==
    /\ client.pc = "idle" /\ client.next <= client.limit
    /\ IF IsFull(sq_tail, sq_head, N_SQE)
       THEN client' = [client EXCEPT !.res = "full", !.refused = TRUE]
       ELSE client' = [client EXCEPT !.pc = "sub_w1", !.res = "pending"]
    /\ UNCHANGED <<sq, cq, sq_tail, cq_head, sq_head, cq_tail, server, hist,
                   strVars, schVars>>

\* write sq[sq_tail mod capacity]: the id first ...
ClientWriteId ==
    /\ client.pc = "sub_w1"
    /\ sq' = [sq EXCEPT ![sq_tail % N_SQE] =
                 [id |-> client.next, chk |-> @.chk, w |-> "torn"]]
    /\ client' = [client EXCEPT !.pc = "sub_w2"]
    /\ UNCHANGED <<cq, sq_tail, cq_head, sq_head, cq_tail, server, hist,
                   strVars, schVars>>

\* ... the check field last.
ClientWriteChk ==
    /\ client.pc = "sub_w2"
    /\ sq' = [sq EXCEPT ![sq_tail % N_SQE] =
                 [id |-> @.id, chk |-> client.next, w |-> "whole"]]
    /\ client' = [client EXCEPT !.pc = "sub_pub"]
    /\ UNCHANGED <<cq, sq_tail, cq_head, sq_head, cq_tail, server, hist,
                   strVars, schVars>>

\* publish: sq_tail.store(sq_tail + 1, Release)
ClientPublish ==
    /\ client.pc = "sub_pub"
    /\ sq_tail' = Inc(sq_tail)
    /\ hist' = [hist EXCEPT !.submitted = Append(@, client.next),
                            !.outstanding = @ \cup {client.next}]
    /\ client' = [client EXCEPT !.pc = "idle", !.next = @ + 1, !.res = "ok",
                                !.refused = FALSE]
    /\ UNCHANGED <<sq, cq, cq_head, sq_head, cq_tail, server, strVars, schVars>>

\* ---- the client: consumer of the completion queue ----

\* poll(): load cq_tail (acquire), compare with the own cq_head.
ClientPollBegin ==
    /\ client.pc = "idle"
    /\ IF IsEmpty(cq_tail, cq_head)
       THEN client' = [client EXCEPT !.res = "empty"]
       ELSE client' = [client EXCEPT !.pc = "poll_r1", !.res = "pending"]
    /\ UNCHANGED <<sq, cq, sq_tail, cq_head, sq_head, cq_tail, server, hist,
                   strVars, schVars>>

ClientReadId ==
    /\ client.pc = "poll_r1"
    /\ \E v \in FieldValues(cq[cq_head % N_CQE], "id") :
          client' = [client EXCEPT !.pc = "poll_r2", !.rd = [id |-> v, chk |-> 0]]
    /\ hist' = [hist EXCEPT !.bad_read = @ \/ cq[cq_head % N_CQE].w # "whole"]
    /\ UNCHANGED <<sq, cq, sq_tail, cq_head, sq_head, cq_tail, server,
                   strVars, schVars>>

ClientReadChk ==
    /\ client.pc = "poll_r2"
    /\ \E v \in FieldValues(cq[cq_head % N_CQE], "chk") :
          client' = [client EXCEPT !.pc = "poll_adv", !.rd = [id |-> @.id, chk |-> v]]
    /\ hist' = [hist EXCEPT !.bad_read = @ \/ cq[cq_head % N_CQE].w # "whole"]
    /\ UNCHANGED <<sq, cq, sq_tail, cq_head, sq_head, cq_tail, server,
                   strVars, schVars>>

\* consume: cq_head.store(cq_head + 1, Release); match the completion with
\* the outstanding request of its id.
ClientAdvance ==
    /\ client.pc = "poll_adv"
    /\ cq_head' = Inc(cq_head)
    /\ hist' = [hist EXCEPT !.observed = Append(@, client.rd),
                            !.outstanding = @ \ {client.rd.id},
                            !.unmatched = @ \/ client.rd.id \notin hist.outstanding]
    /\ client' = [client EXCEPT !.pc = "idle", !.res = "ok",
                                !.rd = [id |-> 0, chk |-> 0]]
    /\ UNCHANGED <<sq, cq, sq_tail, sq_head, cq_tail, server, strVars, schVars>>

\* ---- the server: consumer of the submission queue ----

ServerDrainBegin ==
    /\ server.pc = "idle"
    /\ ~IsEmpty(sq_tail, sq_head)
    /\ server' = [server EXCEPT !.pc = "drain_r1"]
    /\ UNCHANGED <<sq, cq, sq_tail, cq_head, sq_head, cq_tail, client, hist,
                   strVars, schVars>>

ServerReadId ==
    /\ server.pc = "drain_r1"
    /\ \E v \in FieldValues(sq[sq_head % N_SQE], "id") :
          server' = [server EXCEPT !.pc = "drain_r2", !.rd = [id |-> v, chk |-> 0]]
    /\ hist' = [hist EXCEPT !.bad_read = @ \/ sq[sq_head % N_SQE].w # "whole"]
    /\ UNCHANGED <<sq, cq, sq_tail, cq_head, sq_head, cq_tail, client,
                   strVars, schVars>>

ServerReadChk ==
    /\ server.pc = "drain_r2"
    /\ \E v \in FieldValues(sq[sq_head % N_SQE], "chk") :
          server' = [server EXCEPT !.pc = "drain_adv", !.rd = [id |-> @.id, chk |-> v]]
    /\ hist' = [hist EXCEPT !.bad_read = @ \/ sq[sq_head % N_SQE].w # "whole"]
    /\ UNCHANGED <<sq, cq, sq_tail, cq_head, sq_head, cq_tail, client,
                   strVars, schVars>>

ServerAdvance ==
    /\ server.pc = "drain_adv"
    /\ sq_head' = Inc(sq_head)
    /\ hist' = [hist EXCEPT !.drained = Append(@, server.rd)]
    /\ server' = [server EXCEPT !.pc = "comp", !.cur = server.rd.id,
                                !.rd = [id |-> 0, chk |-> 0]]
    /\ UNCHANGED <<sq, cq, sq_tail, cq_head, cq_tail, client, strVars, schVars>>

\* ---- the server: producer of the completion queue ----

\* The completion carries the id of the request it answers. When the
\* completion queue is full the server retries later.
ServerCompleteBegin ==
    /\ server.pc = "comp"
    /\ ~IsFull(cq_tail, cq_head, N_CQE)
    /\ server' = [server EXCEPT !.pc = "comp_w1"]
    /\ UNCHANGED <<sq, cq, sq_tail, cq_head, sq_head, cq_tail, client, hist,
                   strVars, schVars>>

ServerWriteId ==
    /\ server.pc = "comp_w1"
    /\ cq' = [cq EXCEPT ![cq_tail % N_CQE] =
                 [id |-> server.cur, chk |-> @.chk, w |-> "torn"]]
    /\ server' = [server EXCEPT !.pc = "comp_w2"]
    /\ UNCHANGED <<sq, sq_tail, cq_head, sq_head, cq_tail, client, hist,
                   strVars, schVars>>

ServerWriteChk ==
    /\ server.pc = "comp_w2"
    /\ cq' = [cq EXCEPT ![cq_tail % N_CQE] =
                 [id |-> @.id, chk |-> server.cur, w |-> "whole"]]
    /\ server' = [server EXCEPT !.pc = "comp_pub"]
    /\ UNCHANGED <<sq, sq_tail, cq_head, sq_head, cq_tail, client, hist,
                   strVars, schVars>>

ServerPublish ==
    /\ server.pc = "comp_pub"
    /\ cq_tail' = Inc(cq_tail)
    /\ hist' = [hist EXCEPT !.completed = Append(@, server.cur)]
    /\ server' = [server EXCEPT !.pc = "idle", !.cur = 0]
    /\ UNCHANGED <<sq, cq, sq_tail, cq_head, sq_head, client, strVars, schVars>>

ClientPoll == ClientPollBegin \/ ClientReadId \/ ClientReadChk \/ ClientAdvance

ClientNext ==
    \/ ClientSubmitBegin \/ ClientWriteId \/ ClientWriteChk \/ ClientPublish
    \/ ClientPoll

ServerNext ==
    \/ ServerDrainBegin \/ ServerReadId \/ ServerReadChk \/ ServerAdvance
    \/ ServerCompleteBegin \/ ServerWriteId \/ ServerWriteChk \/ ServerPublish

RingIdle == RingInit /\ ThreadsInit

Init == RingInit /\ ThreadsInit /\ StrIdle /\ endian = "little" /\ SchIdle

Next ==
    \/ ClientSubmitBegin \/ ClientWriteId \/ ClientWriteChk \/ ClientPublish
    \/ ClientPollBegin \/ ClientReadId \/ ClientReadChk \/ ClientAdvance
    \/ ServerDrainBegin \/ ServerReadId \/ ServerReadChk \/ ServerAdvance
    \/ ServerCompleteBegin \/ ServerWriteId \/ ServerWriteChk \/ ServerPublish

Spec == Init /\ [][Next]_vars

\* Each thread keeps running, and the client keeps polling.
SpecFair ==
    /\ Init /\ [][Next]_vars
    /\ WF_vars(ServerNext)
    /\ WF_vars(ClientNext)
    /\ SF_vars(ClientPoll)

\* The same ring and the same two threads, the client submitting enough
\* requests for sq_tail, sq_head, cq_tail and cq_head to pass the largest
\* value of a cursor and start again at 0.
WrapInit ==
    RingInit /\ ThreadsStart(WrapRequests) /\ StrIdle /\ endian = "little" /\ SchIdle

SpecWrap == WrapInit /\ [][Next]_vars

\* The capacities of the lifecycle specification: the smallest (the tag byte
\* overlaps the length word), the next one, and the largest.
LifeCaps == {MinN, MinN + 1, MaxN}

\* The texts of the lifecycle specification: empty, one byte, exactly n
\* bytes ending in a multi-byte character, and two of one byte more than
\* fits inline.
LifeTexts(n) ==
    { <<>>, Text(1, <<97>>), Text(n, <<226, 130, 172>>),
      Text(n + 1, <<97>>), Text(n + 1, <<226, 130, 172>>) }

StrSpecInit == StrInit /\ SchIdle /\ RingIdle

\* The constructors as functions of their input: every capacity, every text
\* length up to MaxLen.
StrNext ==
    \/ \E t \in AllTexts : StrNew(1, t)
    \/ \E t \in AllTexts : StrNewStatic(1, t)

SpecStr == StrSpecInit /\ [][StrNext]_vars

LifeInit == StrInit /\ N \in LifeCaps /\ SchIdle /\ RingIdle

\* Several values alive at once, texts around the inline/heap boundary.
LifeNext ==
    \/ \E s \in Slots : \E t \in LifeTexts(N) : StrNew(s, t)
    \/ \E s \in Slots : \E t \in LifeTexts(N) : StrNewStatic(s, t)
    \/ \E s \in Slots : StrDrop(s)

SpecLife == LifeInit /\ [][LifeNext]_vars

(***************************************************************************)
(*                        Claims about the ring                            *)
(***************************************************************************)

IdsOf(log) == {log[k].id : k \in 1..Len(log)}
Whole(id)  == [id |-> id, chk |-> id, w |-> "whole"]

\* The slot the producer used for the k-th of the entries still in a queue
\* whose consumer cursor is `head`.
SlotAt(head, k, cap) == ((head + k - 1) % CursorMod) % cap

\* One queue of the pair: `sent` the ids published by its producer, `got`
\* the entries its consumer took. No entry taken is torn or taken twice,
\* every entry taken was sent, and every entry sent and not yet taken is
\* still whole in its slot: none is lost.
QueueIntact(slots, tail, head, cap, sent, got) ==
    /\ \A k \in 1..Len(got) : got[k].id = got[k].chk
    /\ \A j, k \in 1..Len(got) : j # k => got[j].id # got[k].id
    /\ IdsOf(got) \subseteq {sent[k] : k \in 1..Len(sent)}
    /\ Len(got) <= Len(sent)
    /\ Len(sent) - Len(got) = Depth(tail, head)
    /\ Len(sent) - Len(got) <= cap
    /\ \A k \in 1..(Len(sent) - Len(got)) :
          slots[SlotAt(head, k, cap)] = Whole(sent[Len(got) + k])

\* C1: with one producer and one consumer on a queue, over every
\* interleaving of their steps, no submitted entry is lost, none is consumed
\* twice, and the consumer never reads a slot whose write has not completed.
C1_NoLossNoDupNoTorn ==
    /\ ~hist.bad_read
    /\ QueueIntact(sq, sq_tail, sq_head, N_SQE, hist.submitted, hist.drained)
    /\ QueueIntact(cq, cq_tail, cq_head, N_CQE, hist.completed, hist.observed)
    /\ server.pc \in {"drain_r1", "drain_r2"} => sq[sq_head % N_SQE].w = "whole"
    /\ client.pc \in {"poll_r1", "poll_r2"} => cq[cq_head % N_CQE].w = "whole"

\* The server is reading the oldest entry while the client is in the middle
\* of writing another one, with the submission queue otherwise full.
C1_Witness ==
    /\ server.pc = "drain_r2"
    /\ client.pc = "sub_w2"
    /\ Depth(sq_tail, sq_head) = N_SQE - 1
    /\ Len(hist.drained) >= 1

\* C2: FIFO. The server drains the submission queue in exactly the order
\* the client submitted, and the client drains the completion queue in
\* exactly the order the server wrote.
C2_Fifo ==
    /\ Len(hist.drained) <= Len(hist.submitted)
    /\ \A k \in 1..Len(hist.drained) : hist.drained[k].id = hist.submitted[k]
    /\ Len(hist.observed) <= Len(hist.completed)
    /\ \A k \in 1..Len(hist.observed) : hist.observed[k].id = hist.completed[k]

\* N_SQE - 1 entries were submitted before any was drained, and all of them
\* have been drained, completed and observed.
C2_Witness ==
    /\ Len(hist.submitted) = N_SQE - 1
    /\ Len(hist.observed) = N_SQE - 1
    /\ sq_head = sq_tail
    /\ client.res = "ok" /\ client.pc = "idle"

\* The entries submitted and not drained.
Undrained == Len(hist.submitted) - Len(hist.drained)

\* C3: a submit attempt on a queue holding `capacity` un-drained entries
\* returns the status "full" as an ordinary result (the client carries on),
\* and changes no slot and no cursor; once the consumer has advanced head,
\* a submit attempt is accepted.
C3_FullIsStatus ==
    [][ClientSubmitBegin =>
          /\ Undrained = N_SQE =>
                /\ client'.res = "full" /\ client'.pc = "idle"
                /\ UNCHANGED <<sq, cq, sq_tail, cq_head, sq_head, cq_tail>>
          /\ Undrained < N_SQE =>
                /\ client'.res # "full" /\ client'.pc = "sub_w1"
                /\ UNCHANGED <<sq, cq, sq_tail, cq_head, sq_head, cq_tail>>]_vars

\* A request that was refused as "full" has been accepted on a later
\* attempt and is about to be published.
C3_Witness ==
    /\ client.refused /\ client.pc = "sub_pub"
    /\ Undrained < N_SQE

Observed(i) == \E k \in 1..Len(hist.observed) : hist.observed[k].id = i
Submitted(i) == \E k \in 1..Len(hist.submitted) : hist.submitted[k] = i

\* C4: end-to-end correlation. Every completion the client observes carries
\* the id of an outstanding request of the client, no id is observed twice,
\* the k-th completion answers the k-th request drained, and, the threads
\* being scheduled fairly and the client polling, every submitted id is
\* eventually observed.
C4_ExactlyOnce ==
    /\ [](/\ ~hist.unmatched
          /\ \A j, k \in 1..Len(hist.observed) :
                j # k => hist.observed[j].id # hist.observed[k].id
          /\ \A k \in 1..Len(hist.completed) :
                k <= Len(hist.drained) /\ hist.completed[k] = hist.drained[k].id
          /\ \A i \in Ids : Observed(i) => Submitted(i) /\ i \notin hist.outstanding)
    /\ \A i \in Ids : Submitted(i) ~> Observed(i)

\* Every request has been submitted and its completion observed.
C4_Witness ==
    /\ \A i \in Ids : Observed(i)
    /\ hist.outstanding = {}
    /\ Len(hist.observed) = MaxRequests

\* The entries a queue holds, counted without the cursors: those its
\* producer published less those its consumer took.
Held(sent, got) == Len(sent) - Len(got)

\* The depth computed from the cursors is the number of entries held, and
\* is within 0..capacity.
DepthIsTrue(tail, head, cap, sent, got) ==
    /\ Depth(tail, head) = Held(sent, got)
    /\ Depth(tail, head) \in 0..cap

\* Every entry held is whole in the slot its consumer is going to read it
\* from: the producer wrote it there and has overwritten it with no later one.
NoneOverwritten(slots, head, cap, sent, got) ==
    \A k \in 1..Held(sent, got) :
        slots[SlotAt(head, k, cap)] = Whole(sent[Len(got) + k])

\* The consumer took the entries in the order the producer published them.
InOrder(sent, got) ==
    /\ Len(got) <= Len(sent)
    /\ \A k \in 1..Len(got) : got[k].id = sent[k] /\ got[k].chk = sent[k]

\* C11: cursor wrap-around. For every capacity, when the cursors of a queue
\* wrap, the depth computed as (tail - head) modulo the cursor range is
\* still the number of un-drained entries and within 0..capacity, the slot
\* cursor mod capacity of the k-th entry is the same for producer and
\* consumer and no un-drained slot is overwritten, so that FIFO and no-loss
\* are kept across the wrap. Stated for both queues of the pair, whose
\* capacities are N_SQE and N_CQE.
C11_Original ==
    /\ DepthIsTrue(sq_tail, sq_head, N_SQE, hist.submitted, hist.drained)
    /\ DepthIsTrue(cq_tail, cq_head, N_CQE, hist.completed, hist.observed)
    /\ NoneOverwritten(sq, sq_head, N_SQE, hist.submitted, hist.drained)
    /\ NoneOverwritten(cq, cq_head, N_CQE, hist.completed, hist.observed)
    /\ InOrder(hist.submitted, hist.drained)
    /\ InOrder(hist.completed, hist.observed)

(***************************************************************************)
(*                    Claims about CompactString<N>                        *)
(***************************************************************************)

MadeBy(kind) == {s \in Live : vals[s].by = kind}

\* C5: round trip. For every capacity N in 16..61 and every valid UTF-8
\* text s (inline for lengths 0..N, on the heap above N),
\* new(s).as_str() shows exactly the bytes of s and as_slice().len() is
\* s.len().
C5_RoundTrip ==
    \A s \in MadeBy("new") :
        /\ ViewOf(s) = Valid(vals[s].src)
        /\ SliceOf(s).len = Len(vals[s].src)

\* A heap-stored text at the capacity where the tag byte overlaps the
\* length word.
C5_Witness ==
    \E s \in MadeBy("new") :
        /\ N = MinN /\ Len(vals[s].src) > N
        /\ ViewOf(s) = Valid(vals[s].src)

\* C6: the tag new(text) selects. Length 0: the canonical empty block (final
\* byte 192, every other byte 0). Length L with 1 <= L < N: final byte
\* 192 + L, in 193..252. Length N: the final byte is the text's own last
\* byte, below 192. Length above N: 253. Never 254 or 255.
C6_TagSelection ==
    \A s \in MadeBy("new") :
        LET L == Len(vals[s].src)
            b == vals[s].bytes
        IN  /\ Len(b) = N
            /\ L = 0 => b = [i \in 1..N |-> IF i = N THEN 192 ELSE 0]
            /\ (1 <= L /\ L < N) => (b[N] = 192 + L /\ b[N] \in 193..252)
            /\ L = N => (b[N] = vals[s].src[L] /\ b[N] < 192)
            /\ L > N => b[N] = 253
            /\ b[N] \notin {254, 255}

\* A text of exactly N bytes that ends in a multi-byte character.
C6_Witness ==
    \E s \in MadeBy("new") :
        /\ Len(vals[s].src) = N
        /\ vals[s].bytes[N] >= 128
        /\ vals[s].bytes[N] < 192

\* C7 as stated: for every whole-program-lifetime text, new_static stores
\* pointer and length under tag 254, allocates nothing, and the view starts
\* at the source's address with the source's length.
C7_Original ==
    \A s \in MadeBy("static") :
        /\ TagOf(s) = LAST_BYTE_STATIC
        /\ ~vals[s].allocd
        /\ SliceOf(s).ptr = vals[s].src_addr
        /\ SliceOf(s).len = Len(vals[s].src)

\* C7 amended: the above for every non-empty whole-program-lifetime text;
\* for the empty text new_static returns the canonical empty block (tag
\* 192), allocates nothing, and the view has length 0.
C7_StaticBorrow ==
    \A s \in MadeBy("static") :
        /\ ~vals[s].allocd
        /\ SliceOf(s).len = Len(vals[s].src)
        /\ ViewOf(s) = Valid(vals[s].src)
        /\ vals[s].src # <<>> =>
              /\ TagOf(s) = LAST_BYTE_STATIC
              /\ SliceOf(s).ptr = vals[s].src_addr
        /\ vals[s].src = <<>> =>
              /\ vals[s].bytes = [i \in 1..N |-> IF i = N THEN 192 ELSE 0]
              /\ SliceOf(s).ptr = SlotAddr(s)

\* A borrowed text longer than the capacity, at the capacity where the tag
\* byte overlaps the length word.
C7_Witness ==
    \E s \in MadeBy("static") :
        /\ N = MinN /\ Len(vals[s].src) > N
        /\ TagOf(s) = LAST_BYTE_STATIC
        /\ SliceOf(s).ptr = vals[s].src_addr

\* The buffer a live value with the heap tag points at.
Owned(s) == WordToNat(first_usize(vals[s].bytes, endian))
HeapVals == {s \in Live : TagOf(s) = LAST_BYTE_HEAP}

\* C8: over any sequence of constructions and destructions, every live
\* allocation has exactly one live owner with tag 253 (so none is leaked or
\* freed early), every live value that allocated owns a live buffer holding
\* its text, nothing is ever released that is not a live allocation (no
\* double free), and a destruction releases memory iff the value's tag was
\* 253.
C8_FreedExactlyOnce ==
    /\ ~badfree
    /\ \A a \in HeapAddrs :
          Cardinality({s \in HeapVals : Owned(s) = a}) = (IF heap[a].live THEN 1 ELSE 0)
    /\ \A s \in Live :
          /\ vals[s].allocd <=> TagOf(s) = LAST_BYTE_HEAP
          /\ vals[s].allocd =>
                Owned(s) \in HeapAddrs /\ heap[Owned(s)].buf = vals[s].src
    /\ (lastDrop.released = 1) <=> lastDrop.heapTag

\* A heap value was destroyed and its buffer released while another heap
\* value and a borrowed value are still alive.
C8_Witness ==
    /\ lastDrop.heapTag /\ lastDrop.released = 1
    /\ \E s \in HeapVals : heap[Owned(s)].live
    /\ Cardinality({a \in HeapAddrs : heap[a].live}) = 1

SchSpecInit == SchInit /\ StrIdle /\ RingIdle

SchNext ==
    \/ Expand
    \/ \E i \in 1..MaxSchemaEntries : ReadOp(i)

SpecSchema == SchSpecInit /\ [][SchNext]_vars

(***************************************************************************)
(*                       Claims about def_schema!                          *)
(***************************************************************************)

Entries == 1..Len(schema)

\* The code the rule of the data model gives entry i: the explicit code of
\* the nearest entry at or before i that has one, plus the distance to it;
\* the position counted from 0 when there is none.
ExpectedCode(i) ==
    LET coded == {j \in 1..i : schema[j].discriminant.some} IN
    IF coded = {} THEN i - 1
    ELSE LET j == CHOOSE k \in coded : \A l \in coded : l <= k IN
         schema[j].discriminant.lit + (i - j)

\* C9: discriminant assignment. An entry with an explicit code gets that
\* code; one without gets the previous entry's discriminant + 1, or 0 when
\* it is first (`A -> X; B -> Y;` gives 0, 1; `4096: A -> X; 8192: B -> Y;`
\* gives 4096, 8192); op() on a request value reads back its entry's code.
C9_Discriminants ==
    (output.state = "expanded" /\ output.ok) =>
        /\ Len(output.variants) = Len(schema)
        /\ \A i \in Entries :
              LET d == Discriminant(output.variants, i) IN
              /\ d = ExpectedCode(i)
              /\ schema[i].discriminant.some => d = schema[i].discriminant.lit
              /\ (~schema[i].discriminant.some /\ i = 1) => d = 0
              /\ (~schema[i].discriminant.some /\ i > 1) =>
                     d = Discriminant(output.variants, i - 1) + 1
        /\ (\A i \in Entries : ~schema[i].discriminant.some) =>
              \A i \in Entries : Discriminant(output.variants, i) = i - 1
        /\ opread # NoRead => opread.code = ExpectedCode(opread.variant)

\* op() read 8193 from the second variant of `8192: A -> X; B -> Y;`.
C9_Witness ==
    /\ Len(schema) = 2
    /\ schema[1].discriminant = Some(8192) /\ schema[2].discriminant = None
    /\ opread = [variant |-> 2, code |-> 8193]

IsSimpleName(ty) == ty.kind = "path" /\ ~ty.lead /\ Len(ty.segs) = 1 /\ ~ty.args

\* C10 as stated: a schema is accepted only when every payload type of
\* every entry, request and response, is a single simple name; otherwise
\* the expansion is a compile error and no type is generated.
C10_Original ==
    output.state = "expanded" =>
        /\ output.ok <=>
              \A i \in Entries : IsSimpleName(schema[i].req) /\ IsSimpleName(schema[i].resp)
        /\ ~output.ok => (output.variants = <<>> /\ output.fields = <<>>)

\* C10 amended: the check is on the request payload type alone. A schema
\* is accepted exactly when every entry's request type is a single simple
\* name, whatever its response types are; otherwise the expansion is a
\* compile error and no type is generated.
C10_RequestTypeValidation ==
    output.state = "expanded" =>
        /\ output.ok <=> \A i \in Entries : IsSimpleName(schema[i].req)
        /\ ~output.ok =>
              /\ output.variants = <<>> /\ output.fields = <<>>
              /\ output.err # ""
        /\ output.ok =>
              /\ Len(output.fields) = Len(schema)
              /\ \A i \in Entries : output.fields[i].ty = schema[i].resp

\* A schema whose second entry names its request type by a path is
\* rejected; nothing is generated.
C10_Witness ==
    /\ output.state = "expanded" /\ ~output.ok
    /\ Len(schema) = 2
    /\ IsSimpleName(schema[1].req) /\ ~IsSimpleName(schema[2].req)
    /\ schema[2].req.kind = "path"
    /\ output.variants = <<>>

====
